---------------------------- MODULE Spec2Model ----------------------------
(***************************************************************************)
(* Model of the vocabulary tutor (src/app.py): the extraction of a         *)
(* dictionary entry from the language model's reply (translate_word), the  *)
(* words table with its owner-scoped handlers (search, get_words,          *)
(* set_difficulty, delete_word) and the statistics report (get_stats).     *)
(*                                                                         *)
(* Text is modelled as a sequence of lexemes: the fence delimiter, the     *)
(* "json" tag, white space, the JSON punctuation, a member name (standing  *)
(* for the quoted name and its colon) and ordinary characters.  Time is a  *)
(* count of slots, SlotsPerDay of them to the calendar day.                *)
(***************************************************************************)
EXTENDS Integers, Sequences, FiniteSets, TLC

VARIABLES
    words,      \* the words table: id -> row
    nextId,     \* the next value of the SERIAL sequence words.id
    now,        \* the clock, in slots
    resp,       \* the response the last step sent, NoResponse when it sent none
    job,        \* a get_stats request in flight (the interleaved specification)
    raw,        \* the reply of the language model handed to translate_word
    parsed      \* what translate_word returned for it

vars == <<words, nextId, now, resp, job, raw, parsed>>

----------------------------------------------------------------------------
(* Bounds of the model *)

MaxId == 2              \* ids the SERIAL sequence may issue (Spec)
MaxTime == 1            \* last slot the clock reaches (Spec)
SlotsPerDay == 2        \* resolution of the clock
MaxStreakDay == 5       \* last calendar day of the histories of SpecStreak
DailyEntries == 2       \* entries in the histories of SpecDaily
DailySpan == 1          \* days the clock of SpecDaily runs past the window
MaxStrLen == 1          \* length of the string values of SpecValidate
SubmitMaxId == 2        \* ids issued in SpecSubmit
ConcMaxId == 2          \* ids issued in SpecConc

(* Program constants *)

WindowDays == 30        \* INTERVAL '30 days'

----------------------------------------------------------------------------
(* JSON values: a string is Str(s), s a sequence of characters; null is Null *)

Null == [null |-> TRUE]

Str(s) == [str |-> s]

JSONError == [error |-> "JSONDecodeError"]

EmptyObj == [k \in {} |-> Null]

\* the fence delimiter, three grave accents
Fence == "<fence>"

Tag == "json"

Quote == "\""

WhiteSpace == {" ", "\n"}

Keys ==
    {"english", "german", "word_type", "gender_article", "gender_label",
     "plural", "verb_forms", "ipa", "example_sentence",
     "sentence_translation", "notes"}

WordTypes ==
    {"noun", "verb", "adjective", "adverb", "preposition", "conjunction",
     "pronoun", "particle", "interjection", "numeral", "phrase"}

Difficulties == {"new", "hard", "medium", "easy"}

----------------------------------------------------------------------------
(* str.strip, the membership test and str.split of translate_word *)

RECURSIVE lstrip(_)
lstrip(t) == IF t # <<>> /\ Head(t) \in WhiteSpace THEN lstrip(Tail(t)) ELSE t

RECURSIVE rstrip(_)
rstrip(t) ==
    IF t # <<>> /\ t[Len(t)] \in WhiteSpace
    THEN rstrip(SubSeq(t, 1, Len(t) - 1))
    ELSE t

strip(t) == rstrip(lstrip(t))

Contains(t, c) == \E i \in 1..Len(t) : t[i] = c

IndexOf(t, c) ==
    CHOOSE i \in 1..Len(t) : t[i] = c /\ \A j \in 1..(i - 1) : t[j] # c

\* text.split(Fence)[1]: what lies between the first fence and the next one,
\* or the end of the text
split_second(t) ==
    LET rest == SubSeq(t, IndexOf(t, Fence) + 1, Len(t))
    IN  IF Contains(rest, Fence)
        THEN SubSeq(rest, 1, IndexOf(rest, Fence) - 1)
        ELSE rest

strip_fence(content) ==
    LET text == strip(content)
    IN  IF Contains(text, Fence)
        THEN LET seg == split_second(text)
                 cut == IF seg # <<>> /\ Head(seg) = Tag THEN Tail(seg) ELSE seg
             IN  strip(cut)
        ELSE text

----------------------------------------------------------------------------
(* json.loads on an object of nullable strings; anything else is an error *)

RECURSIVE parse_members(_, _)
parse_members(t, acc) ==
    IF t = <<>> THEN JSONError
    ELSE IF Head(t) = "}" THEN (IF Len(t) = 1 THEN acc ELSE JSONError)
    ELSE IF Head(t) \notin Keys \/ Len(t) < 2 THEN JSONError
    ELSE IF t[2] = "null"
         THEN parse_members(SubSeq(t, 3, Len(t)), (Head(t) :> Null) @@ acc)
    ELSE IF t[2] = Quote /\ Contains(SubSeq(t, 3, Len(t)), Quote)
         THEN LET rest == SubSeq(t, 3, Len(t))
                  j == IndexOf(rest, Quote)
              IN  parse_members(SubSeq(rest, j + 1, Len(rest)),
                                (Head(t) :> Str(SubSeq(rest, 1, j - 1))) @@ acc)
    ELSE JSONError

json_loads(t) ==
    LET s == strip(t)
    IN  IF s # <<>> /\ Head(s) = "{"
        THEN parse_members(Tail(s), EmptyObj)
        ELSE JSONError

\* translate_word from the reply on (lines 140-146)
translate_word(content) == json_loads(strip_fence(content))

\* The reply format the prompt asks for: a JSON object.  ms is the sequence
\* of its members, each <<name, value>>
RECURSIVE dump_members(_)
dump_members(ms) ==
    IF ms = <<>> THEN <<>>
    ELSE LET m == Head(ms)
         IN  <<m[1]>>
             \o (IF m[2] = Null THEN <<"null">>
                 ELSE <<Quote>> \o m[2].str \o <<Quote>>)
             \o dump_members(Tail(ms))

dumps(ms) == <<"{">> \o dump_members(ms) \o <<"}">>

\* The object a member sequence denotes (a later member replaces an earlier
\* one of the same name)
RECURSIVE AsObject(_)
AsObject(ms) ==
    IF ms = <<>> THEN EmptyObj
    ELSE LET m == ms[Len(ms)]
         IN  (m[1] :> m[2]) @@ AsObject(SubSeq(ms, 1, Len(ms) - 1))

\* The ways a reply wraps its JSON object
Wrappers == {"plain", "fenced", "tagged", "prose"}

Wrap(w, t) ==
    CASE w = "plain"  -> <<"\n">> \o t \o <<"\n">>
      [] w = "fenced" -> <<Fence>> \o t \o <<Fence>>
      [] w = "tagged" -> <<Fence, Tag, "\n">> \o t \o <<"\n", Fence>>
      [] w = "prose"  -> <<"Here", " ", Fence, Tag, "\n">> \o t
                         \o <<"\n", Fence, "\n", "Enjoy">>


----------------------------------------------------------------------------
(* The replies the language model gives in the store specifications *)

\* The example entry of the prompt
FlowerMs ==
    << <<"english", Str(<<"flower">>)>>, <<"german", Str(<<"Blume">>)>>,
       <<"word_type", Str(<<"noun">>)>>, <<"gender_article", Str(<<"die">>)>>,
       <<"gender_label", Str(<<"f">>)>>, <<"plural", Str(<<"Blumen">>)>>,
       <<"verb_forms", Null>>, <<"ipa", Str(<<"/blu:me/">>)>>,
       <<"example_sentence", Str(<<"Ich", " ", "habe", " ", "Blumen">>)>>,
       <<"sentence_translation", Str(<<"I", " ", "have", " ", "flowers">>)>>,
       <<"notes", Str(<<"Regular plural.">>)>> >>

GehenMs ==
    << <<"english", Str(<<"to go">>)>>, <<"german", Str(<<"gehen">>)>>,
       <<"word_type", Str(<<"verb">>)>>, <<"gender_article", Null>>,
       <<"gender_label", Null>>, <<"plural", Null>>,
       <<"verb_forms", Str(<<"ging, ist gegangen">>)>>,
       <<"ipa", Str(<<"/ge:en/">>)>>,
       <<"example_sentence", Str(<<"Wir", " ", "gehen">>)>>,
       <<"sentence_translation", Str(<<"We", " ", "go">>)>>,
       <<"notes", Null>> >>

\* ms with the member called k given the value v
WithMember(ms, k, v) ==
    [i \in 1..Len(ms) |-> IF ms[i][1] = k THEN <<k, v>> ELSE ms[i]]

\* ms without the member called k
RECURSIVE WithoutMember(_, _)
WithoutMember(ms, k) ==
    IF ms = <<>> THEN <<>>
    ELSE IF Head(ms)[1] = k THEN WithoutMember(Tail(ms), k)
    ELSE <<Head(ms)>> \o WithoutMember(Tail(ms), k)

\* client.chat.completions.create raised
ApiError == [error |-> "APIError"]

----------------------------------------------------------------------------
(* The words table *)

Users == {1, 2}

NoSession == 0

Sessions == Users \cup {NoSession}

Day(t) == t \div SlotsPerDay

isoformat(x) == [iso |-> x]

\* dict.get(k): None when the member is missing
get(result, k) == IF k \in DOMAIN result THEN result[k] ELSE Null

\* The row of the INSERT of search
NewRow(id, uid, result, t) ==
    [id |-> id,
     user_id |-> uid,
     english |-> result["english"],
     german |-> result["german"],
     word_type |-> get(result, "word_type"),
     gender_article |-> get(result, "gender_article"),
     gender_label |-> get(result, "gender_label"),
     plural |-> get(result, "plural"),
     verb_forms |-> get(result, "verb_forms"),
     example_sentence |-> result["example_sentence"],
     sentence_translation |-> get(result, "sentence_translation"),
     ipa |-> get(result, "ipa"),
     notes |-> get(result, "notes"),
     difficulty |-> "new",
     created_at |-> t]

\* INSERT INTO words ... VALUES (...)
insert_word(tbl, row) == (row.id :> row) @@ tbl

\* The WHERE clause without its user_id condition
owned_any(tbl, uid) == DOMAIN tbl

\* WHERE user_id = %s
owned(tbl, uid) == {id \in DOMAIN tbl : tbl[id].user_id = uid}

\* WHERE id = %s AND user_id = %s
matching(tbl, word_id, uid) == {id \in owned(tbl, uid) : id = word_id}

\* The UPDATE without its id condition
update_difficulty_any_id(tbl, difficulty, word_id, uid) ==
    [id \in DOMAIN tbl |->
        IF id \in owned(tbl, uid)
        THEN [tbl[id] EXCEPT !.difficulty = difficulty]
        ELSE tbl[id]]

\* UPDATE words SET difficulty = %s WHERE id = %s AND user_id = %s
update_difficulty(tbl, difficulty, word_id, uid) ==
    [id \in DOMAIN tbl |->
        IF id \in matching(tbl, word_id, uid)
        THEN [tbl[id] EXCEPT !.difficulty = difficulty]
        ELSE tbl[id]]

\* DELETE FROM words WHERE id = %s AND user_id = %s
delete_from(tbl, word_id, uid) ==
    [id \in DOMAIN tbl \ matching(tbl, word_id, uid) |-> tbl[id]]

\* The sequences that list the set S once each
Perms(S) ==
    {s \in [1..Cardinality(S) -> S] :
        \A i, j \in 1..Cardinality(S) : i # j => s[i] # s[j]}

\* SELECT * FROM words WHERE user_id = %s ORDER BY created_at DESC: the
\* orders the database may return (rows of one instant come in any order)
select_words(tbl, uid) ==
    {[i \in DOMAIN s |-> tbl[s[i]]] : s \in
        {p \in Perms(owned(tbl, uid)) :
            \A i, j \in DOMAIN p :
                i < j => tbl[p[i]].created_at >= tbl[p[j]].created_at}}

----------------------------------------------------------------------------
(* Responses *)

Response(op, u, arg, status, body) ==
    [op |-> op, user |-> u, arg |-> arg, status |-> status, body |-> body]

NoResponse == Response("none", NoSession, <<>>, 0, <<>>)

\* login_required
LoginRequired(op, arg) ==
    Response(op, NoSession, arg, 401, [error |-> "Login required"])

----------------------------------------------------------------------------
(* The queries and the loop of get_stats *)

Max(S) == CHOOSE x \in S : \A y \in S : y <= x

Min(S) == CHOOSE x \in S : \A y \in S : x <= y

RECURSIVE SortDesc(_)
SortDesc(S) == IF S = {} THEN <<>> ELSE <<Max(S)>> \o SortDesc(S \ {Max(S)})

RECURSIVE SortAsc(_)
SortAsc(S) == IF S = {} THEN <<>> ELSE <<Min(S)>> \o SortAsc(S \ {Min(S)})

\* The count without its WHERE clause
select_total_all(tbl, uid) == Cardinality(DOMAIN tbl)

\* SELECT COUNT(*) as total FROM words WHERE user_id = %s
select_total(tbl, uid) == Cardinality(owned(tbl, uid))

\* SELECT COALESCE(word_type, 'other'), COUNT(*) ... GROUP BY word_type
\* ORDER BY count DESC: the orders the database may return
select_by_type(tbl, uid) ==
    LET ids == owned(tbl, uid)
        types == {tbl[id].word_type : id \in ids}
        n(wt) == Cardinality({id \in ids : tbl[id].word_type = wt})
    IN  {[i \in DOMAIN p |->
            [word_type |-> IF p[i] = Null THEN Str(<<"other">>) ELSE p[i],
             count |-> n(p[i])]] : p \in
         {q \in Perms(types) :
             \A i, j \in DOMAIN q : i < j => n(q[i]) >= n(q[j])}}

\* SELECT COALESCE(difficulty, 'new'), COUNT(*) ... GROUP BY difficulty, as
\* the dict {difficulty: count}; the column is never NULL, search sets it
select_by_difficulty(tbl, uid) ==
    LET ids == owned(tbl, uid)
    IN  [d \in {tbl[id].difficulty : id \in ids} |->
            Cardinality({id \in ids : tbl[id].difficulty = d})]

\* created_at > NOW() - INTERVAL '30 days'
in_window(created_at, t) == created_at > t - WindowDays * SlotsPerDay

\* SELECT DATE(created_at) as day, COUNT(*) ... GROUP BY DATE(created_at)
\* ORDER BY day
select_daily(tbl, uid, t) ==
    LET ids == {id \in owned(tbl, uid) : in_window(tbl[id].created_at, t)}
        days == SortAsc({Day(tbl[id].created_at) : id \in ids})
    IN  [i \in DOMAIN days |->
            [day |-> isoformat(days[i]),
             count |-> Cardinality({id \in ids :
                                      Day(tbl[id].created_at) = days[i]})]]

\* SELECT DISTINCT DATE(created_at) as day ... ORDER BY day DESC
select_days(tbl, uid) ==
    SortDesc({Day(tbl[id].created_at) : id \in owned(tbl, uid)})

\* The loop without the shift of today at i = 0
RECURSIVE streak_loop_no_shift(_, _, _, _)
streak_loop_no_shift(days, i, today, streak) ==
    IF i >= Len(days) THEN streak
    ELSE LET d == days[i + 1]
             expected == today - i
         IN  IF d = expected
             THEN streak_loop_no_shift(days, i + 1, today, streak + 1)
             ELSE IF i = 0 /\ d = today - 1
             THEN streak_loop_no_shift(days, i + 1, today, streak + 1)
             ELSE streak

\* for i, d in enumerate(days): ... (i counts from 0)
RECURSIVE streak_loop(_, _, _, _)
streak_loop(days, i, today, streak) ==
    IF i >= Len(days) THEN streak
    ELSE LET d == days[i + 1]
             expected == today - i
         IN  IF d = expected
             THEN streak_loop(days, i + 1, today, streak + 1)
             ELSE IF i = 0 /\ d = today - 1
             THEN streak_loop(days, i + 1, today - 1, streak + 1)
             ELSE streak

Milestones ==
    << [target |-> 1, label |-> "First Word"],
       [target |-> 10, label |-> "Getting Started"],
       [target |-> 25, label |-> "Quarter Century"],
       [target |-> 50, label |-> "Half Century"],
       [target |-> 100, label |-> "Century"],
       [target |-> 250, label |-> "Enthusiast"],
       [target |-> 500, label |-> "Scholar"],
       [target |-> 1000, label |-> "Master"] >>

\* The report get_stats returns from the results of its five queries;
\* today is date.today()
stats_report(total, by_type, by_difficulty, daily, days, today) ==
    [total |-> total,
     by_type |-> by_type,
     by_difficulty |-> by_difficulty,
     daily |-> daily,
     streak |-> streak_loop(days, 0, today, 0),
     milestones |-> [i \in DOMAIN Milestones |->
                        [target |-> Milestones[i].target,
                         label |-> Milestones[i].label,
                         reached |-> total >= Milestones[i].target]]]

----------------------------------------------------------------------------
(* The request handlers, each run to completion *)

Raised(x) == "error" \in DOMAIN x

Required == {"english", "german", "example_sentence"}

search(u, word, reply, maxId) ==
    LET arg == [word |-> word, reply |-> reply]
        result == IF Raised(reply) THEN reply ELSE translate_word(reply.content)
    IN  /\ UNCHANGED <<now, job, raw, parsed>>
        /\ IF u = NoSession
           THEN /\ resp' = LoginRequired("search", arg)
                /\ UNCHANGED <<words, nextId>>
           ELSE IF strip(word) = <<>>
           THEN /\ resp' = Response("search", u, arg, 400,
                                    [error |-> "No word provided"])
                /\ UNCHANGED <<words, nextId>>
           ELSE IF Raised(result)
           THEN /\ resp' = Response("search", u, arg, 500,
                                    [error |-> "Translation failed"])
                /\ UNCHANGED <<words, nextId>>
           ELSE IF ~(Required \subseteq DOMAIN result)
           THEN \* KeyError while the parameters of the INSERT are built
                /\ resp' = Response("search", u, arg, 500,
                                    [error |-> "KeyError"])
                /\ UNCHANGED <<words, nextId>>
           ELSE IF \E k \in Required : result[k] = Null
           THEN \* NOT NULL violation: the id is drawn, the row is not stored
                /\ nextId <= maxId
                /\ nextId' = nextId + 1
                /\ resp' = Response("search", u, arg, 500,
                                    [error |-> "NotNullViolation"])
                /\ UNCHANGED words
           ELSE /\ nextId <= maxId
                /\ words' = insert_word(words, NewRow(nextId, u, result, now))
                /\ nextId' = nextId + 1
                /\ resp' = Response("search", u, arg, 200,
                                    ("id" :> nextId) @@ ("difficulty" :> "new")
                                    @@ ("created_at" :> isoformat(now))
                                    @@ result)

get_words(u) ==
    /\ UNCHANGED <<words, nextId, now, job, raw, parsed>>
    /\ IF u = NoSession
       THEN resp' = LoginRequired("get_words", <<>>)
       ELSE \E rows \in select_words(words, u) :
                resp' = Response("get_words", u, <<>>, 200,
                                 [i \in DOMAIN rows |->
                                     [rows[i] EXCEPT
                                         !.created_at = isoformat(@)]])

set_difficulty(u, word_id, data) ==
    LET arg == [word_id |-> word_id, data |-> data]
        difficulty == IF "difficulty" \in DOMAIN data
                      THEN data.difficulty ELSE "new"
    IN  /\ UNCHANGED <<nextId, now, job, raw, parsed>>
        /\ IF u = NoSession
           THEN /\ resp' = LoginRequired("set_difficulty", arg)
                /\ UNCHANGED words
           ELSE IF difficulty \notin Difficulties
           THEN /\ resp' = Response("set_difficulty", u, arg, 400,
                                    [error |-> "Invalid difficulty"])
                /\ UNCHANGED words
           ELSE /\ words' = update_difficulty(words, difficulty, word_id, u)
                /\ resp' = Response("set_difficulty", u, arg, 200,
                                    [ok |-> TRUE])

delete_word(u, word_id) ==
    LET arg == [word_id |-> word_id]
    IN  /\ UNCHANGED <<nextId, now, job, raw, parsed>>
        /\ IF u = NoSession
           THEN /\ resp' = LoginRequired("delete_word", arg)
                /\ UNCHANGED words
           ELSE /\ words' = delete_from(words, word_id, u)
                /\ resp' = Response("delete_word", u, arg, 200, [ok |-> TRUE])

get_stats(u) ==
    /\ UNCHANGED <<words, nextId, now, job, raw, parsed>>
    /\ IF u = NoSession
       THEN resp' = LoginRequired("get_stats", <<>>)
       ELSE \E by_type \in select_by_type(words, u) :
                resp' = Response("get_stats", u, <<>>, 200,
                                 stats_report(select_total(words, u),
                                              by_type,
                                              select_by_difficulty(words, u),
                                              select_daily(words, u, now),
                                              select_days(words, u),
                                              Day(now)))

\* The clock advances by one slot; no request is handled
Tick(maxTime) ==
    /\ now < maxTime
    /\ now' = now + 1
    /\ resp' = NoResponse
    /\ UNCHANGED <<words, nextId, job, raw, parsed>>

----------------------------------------------------------------------------
(* Spec: the handlers called one after another on an empty table *)

Idle ==
    [pc |-> "idle", user |-> NoSession, total |-> 0, by_type |-> <<>>,
     by_difficulty |-> EmptyObj, daily |-> <<>>]

NotParsed == [done |-> FALSE, result |-> EmptyObj]

NoReply == [ms |-> <<>>, text |-> <<>>]

Reply(t) == [content |-> t]

Sorry == Reply(<<"Sorry", ",", " ", "no", " ", "entry">>)

Replies == {Reply(Wrap("tagged", dumps(FlowerMs))), Sorry, ApiError}

SearchWords == {<<" ">>, <<"Blume">>}

Bodies == {[difficulty |-> "easy"], [difficulty |-> "extreme"]}

Init ==
    /\ words = EmptyObj
    /\ nextId = 1
    /\ now = 0
    /\ resp = NoResponse
    /\ job = Idle
    /\ raw = NoReply
    /\ parsed = NotParsed

Next ==
    \/ \E u \in Sessions, w \in SearchWords, r \in Replies :
           search(u, w, r, MaxId)
    \/ \E u \in Sessions : get_words(u)
    \/ \E u \in Sessions, id \in 1..MaxId, data \in Bodies :
           set_difficulty(u, id, data)
    \/ \E u \in Sessions, id \in 1..MaxId : delete_word(u, id)
    \/ \E u \in Sessions : get_stats(u)
    \/ Tick(MaxTime)

Spec == Init /\ [][Next]_vars

----------------------------------------------------------------------------
(* SpecSubmit: one user submits; the language model also gives replies    *)
(* that break the entry format                                             *)

SubmitReplies ==
    {Reply(Wrap("tagged", dumps(FlowerMs))),
     Reply(Wrap("plain", dumps(GehenMs))),
     Reply(Wrap("plain",
                dumps(WithMember(FlowerMs, "verb_forms",
                                 Str(<<"ging, gegangen">>))))),
     Reply(Wrap("plain",
                dumps(WithMember(GehenMs, "plural", Str(<<"Gehen">>))))),
     Reply(Wrap("plain", dumps(WithMember(FlowerMs, "english", Str(<<>>))))),
     Reply(Wrap("plain",
                dumps(WithMember(FlowerMs, "word_type", Str(<<"flora">>))))),
     Reply(Wrap("plain", dumps(WithoutMember(FlowerMs, "german")))),
     Reply(Wrap("plain", dumps(WithMember(FlowerMs, "german", Null)))),
     Sorry}

SubmitBodies == Bodies \cup {EmptyObj}

NextSubmit ==
    \/ \E r \in SubmitReplies : search(1, <<"Blume">>, r, SubmitMaxId)
    \/ \E id \in 1..SubmitMaxId, data \in SubmitBodies :
           set_difficulty(1, id, data)

SpecSubmit == Init /\ [][NextSubmit]_vars

----------------------------------------------------------------------------
(* SpecStreak and SpecDaily: get_stats on the histories of one user        *)

\* The table after user uid stored an entry at each instant of ts, a
\* sequence in ascending order
StoreOf(ts, uid) ==
    [id \in DOMAIN ts |-> NewRow(id, uid, AsObject(FlowerMs), ts[id])]

\* An entry on each day of S, and a second one on the last of them if twice
StreakHistory(S, twice) ==
    LET days == SortAsc(S)
    IN  [i \in DOMAIN days |-> days[i] * SlotsPerDay]
        \o (IF twice /\ S # {} THEN <<Max(S) * SlotsPerDay + 1>> ELSE <<>>)

InitStreak ==
    \E asOf \in 0..MaxStreakDay, twice \in BOOLEAN :
        \E S \in SUBSET (0..asOf) :
            /\ words = StoreOf(StreakHistory(S, twice), 1)
            /\ nextId = Len(StreakHistory(S, twice)) + 1
            /\ now = asOf * SlotsPerDay + 1
            /\ resp = NoResponse
            /\ job = Idle
            /\ raw = NoReply
            /\ parsed = NotParsed

NextStreak == get_stats(1)

SpecStreak == InitStreak /\ [][NextStreak]_vars

\* The instants of the days from first to last
SlotsOf(first, last) == (first * SlotsPerDay)..((last + 1) * SlotsPerDay - 1)

InitDaily ==
    \E t \in SlotsOf(WindowDays, WindowDays + DailySpan) :
        \E ts \in [1..DailyEntries -> 0..t] :
            /\ \A i, j \in DOMAIN ts : i < j => ts[i] <= ts[j]
            /\ words = StoreOf(ts, 1)
            /\ nextId = DailyEntries + 1
            /\ now = t
            /\ resp = NoResponse
            /\ job = Idle
            /\ raw = NoReply
            /\ parsed = NotParsed

NextDaily == get_stats(1)

SpecDaily == InitDaily /\ [][NextDaily]_vars

----------------------------------------------------------------------------
(* SpecValidate: translate_word on the replies that hold a JSON object     *)

\* The strings of at most n characters of C
Strings(C, n) == UNION {[1..k -> C] : k \in 0..n}

ValidateObjects ==
    {<< <<"english", Str(e)>>, <<"german", Str(g)>>,
        <<"example_sentence", Str(x)>> >> \o notes :
        e \in Strings({"a", Fence}, MaxStrLen),
        g \in Strings({"b", Tag}, MaxStrLen),
        x \in Strings({"c"}, MaxStrLen),
        notes \in {<<>>, << <<"notes", Null>> >>}}

InitValidate ==
    \E ms \in ValidateObjects, w \in Wrappers :
        /\ raw = [ms |-> ms, text |-> Wrap(w, dumps(ms))]
        /\ parsed = NotParsed
        /\ words = EmptyObj
        /\ nextId = 1
        /\ now = 0
        /\ resp = NoResponse
        /\ job = Idle

validate ==
    /\ ~parsed.done
    /\ parsed' = [done |-> TRUE, result |-> translate_word(raw.text)]
    /\ UNCHANGED <<words, nextId, now, resp, job, raw>>

SpecValidate == InitValidate /\ [][validate]_vars

----------------------------------------------------------------------------
(* SpecConc: get_stats runs its queries one at a time, each on the table   *)
(* as committed at that moment, while the same user's other requests       *)
(* commit                                                                  *)

stats_total(u) ==
    /\ job.pc = "idle"
    /\ UNCHANGED <<words, nextId, now, raw, parsed>>
    /\ IF u = NoSession
       THEN resp' = LoginRequired("get_stats", <<>>) /\ UNCHANGED job
       ELSE /\ job' = [Idle EXCEPT !.pc = "by_type", !.user = u,
                                   !.total = select_total(words, u)]
            /\ resp' = NoResponse

stats_by_type ==
    /\ job.pc = "by_type"
    /\ \E by_type \in select_by_type(words, job.user) :
           job' = [job EXCEPT !.pc = "by_difficulty", !.by_type = by_type]
    /\ resp' = NoResponse
    /\ UNCHANGED <<words, nextId, now, raw, parsed>>

stats_by_difficulty ==
    /\ job.pc = "by_difficulty"
    /\ job' = [job EXCEPT !.pc = "daily",
                          !.by_difficulty = select_by_difficulty(words, job.user)]
    /\ resp' = NoResponse
    /\ UNCHANGED <<words, nextId, now, raw, parsed>>

stats_daily ==
    /\ job.pc = "daily"
    /\ job' = [job EXCEPT !.pc = "days",
                          !.daily = select_daily(words, job.user, now)]
    /\ resp' = NoResponse
    /\ UNCHANGED <<words, nextId, now, raw, parsed>>

stats_days ==
    /\ job.pc = "days"
    /\ resp' = Response("get_stats", job.user, <<>>, 200,
                        stats_report(job.total, job.by_type, job.by_difficulty,
                                     job.daily, select_days(words, job.user),
                                     Day(now)))
    /\ job' = Idle
    /\ UNCHANGED <<words, nextId, now, raw, parsed>>

ConcReplies ==
    {Reply(Wrap("tagged", dumps(FlowerMs))), Reply(Wrap("plain", dumps(GehenMs)))}

NextConc ==
    \/ \E u \in {1, NoSession} : stats_total(u)
    \/ stats_by_type
    \/ stats_by_difficulty
    \/ stats_daily
    \/ stats_days
    \/ \E r \in ConcReplies : search(1, <<"Blume">>, r, ConcMaxId)
    \/ \E id \in 1..ConcMaxId : set_difficulty(1, id, [difficulty |-> "easy"])
    \/ \E id \in 1..ConcMaxId : delete_word(1, id)

SpecConc == Init /\ [][NextConc]_vars

----------------------------------------------------------------------------
(* Properties *)

Answered(op) == resp.op = op /\ resp.status = 200

\* The ids of the rows of user u, read off the table
RowsOf(u) == {id \in DOMAIN words : words[id].user_id = u}

DaysOf(u) == {Day(words[id].created_at) : id \in RowsOf(u)}

RECURSIVE SumCounts(_)
SumCounts(rows) ==
    IF DOMAIN rows = {} THEN 0
    ELSE rows[1].count + SumCounts([i \in 1..(Len(rows) - 1) |-> rows[i + 1]])

RECURSIVE SumDict(_)
SumDict(f) ==
    IF DOMAIN f = {} THEN 0
    ELSE LET k == CHOOSE x \in DOMAIN f : TRUE
         IN  f[k] + SumDict([x \in DOMAIN f \ {k} |-> f[x]])

\* dict lookup with a missing category counting zero
CountOf(f, k) == IF k \in DOMAIN f THEN f[k] ELSE 0

\* C1 (returned part): what a request of user A returns holds rows of A only,
\* and the statistics of A count the rows of A only.
C1_Returned ==
    /\ Answered("get_words") =>
           /\ \A i \in DOMAIN resp.body : resp.body[i].user_id = resp.user
           /\ {resp.body[i].id : i \in DOMAIN resp.body} = RowsOf(resp.user)
    /\ Answered("get_stats") =>
           /\ resp.body.total = Cardinality(RowsOf(resp.user))
           /\ SumCounts(resp.body.by_type) = Cardinality(RowsOf(resp.user))
           /\ SumDict(resp.body.by_difficulty) = Cardinality(RowsOf(resp.user))
           /\ SumCounts(resp.body.daily) <= Cardinality(RowsOf(resp.user))
    /\ Answered("search") =>
           /\ resp.body["id"] \in DOMAIN words
           /\ words[resp.body["id"]].user_id = resp.user

\* C1 (mutation part): a step taken for user A leaves every row of another
\* user in the table and unchanged.
C1_OthersUntouched ==
    \A id \in DOMAIN words :
        words[id].user_id # resp'.user =>
            id \in DOMAIN words' /\ words'[id] = words[id]

\* C1: ownership isolation: after any sequence of search, get_words,
\* set_difficulty, delete_word and get_stats requests, a request of user A
\* never returns a row of user B, never changes or deletes a row of B and
\* never counts a row of B in the statistics of A.
C1_OwnershipIsolation == [](C1_Returned) /\ [][C1_OthersUntouched]_vars

\* C1 witness: user A was answered 200 for the deletion of an id that is a
\* row of user B, and the row is still there.
C1_Witness ==
    /\ Answered("delete_word")
    /\ resp.arg.word_id \in DOMAIN words
    /\ words[resp.arg.word_id].user_id # resp.user

\* C5: set_difficulty and delete_word answer success only when a row of the
\* caller with the given id was there to update or remove; for an id that
\* does not exist or is another user's they answer not-found.
C5_NotFoundReported ==
    [][(resp'.op \in {"set_difficulty", "delete_word"} /\ resp'.status = 200)
         => \E id \in DOMAIN words :
                id = resp'.arg.word_id /\ words[id].user_id = resp'.user]_vars

Requested(data) ==
    IF "difficulty" \in DOMAIN data THEN data.difficulty ELSE "new"

\* C8 (effect and frame of the step): a set_difficulty answered 200 sets the
\* difficulty of the caller's row with that id and changes nothing else.
C8_Frame ==
    (resp'.op = "set_difficulty" /\ resp'.status = 200) =>
        /\ DOMAIN words' = DOMAIN words
        /\ \A id \in DOMAIN words :
               words'[id] =
                   IF id = resp'.arg.word_id /\ words[id].user_id = resp'.user
                   THEN [words[id] EXCEPT
                            !.difficulty = Requested(resp'.arg.data)]
                   ELSE words[id]

\* C8 (immutability): every step keeps all fields but difficulty of every row
\* that stays, and a new row takes the next id of the sequence, so no id is
\* used twice.
C8_Kept ==
    /\ \A id \in DOMAIN words \cap DOMAIN words' :
           [words'[id] EXCEPT !.difficulty = "new"]
               = [words[id] EXCEPT !.difficulty = "new"]
    /\ \A id \in DOMAIN words' \ DOMAIN words :
           id = nextId /\ nextId' = nextId + 1 /\ words'[id].id = id
    /\ nextId' >= nextId

\* C8 (idempotence): updating twice with the same value leaves the table the
\* first update left; no id of the table is at or past the sequence.
C8_Idempotent ==
    /\ \A id \in DOMAIN words : id < nextId
    /\ \A u \in Users, id \in 1..nextId, d \in Difficulties :
           update_difficulty(update_difficulty(words, d, id, u), d, id, u)
               = update_difficulty(words, d, id, u)

\* C8: a successful difficulty update changes the difficulty of that one row
\* and nothing else; every row keeps the other field values it was created
\* with; the update is idempotent.
C8_DifficultyFrame == [](C8_Idempotent) /\ [][C8_Frame /\ C8_Kept]_vars

\* C8 witness: a user with two rows was answered 200 for setting one of them
\* to easy; that row is easy and the other is still new.
C8_Witness ==
    /\ Answered("set_difficulty")
    /\ resp.arg.word_id \in RowsOf(resp.user)
    /\ words[resp.arg.word_id].difficulty = "easy"
    /\ \E id \in RowsOf(resp.user) :
           id # resp.arg.word_id /\ words[id].difficulty = "new"

\* C9: get_stats for a user without rows reports total 0, no by_type group, a
\* by_difficulty in which new, easy, medium and hard count zero, no day,
\* streak 0 and the eight milestones 1, 10, 25, 50, 100, 250, 500, 1000
\* none of which is reached.
C9_EmptyReport ==
    (Answered("get_stats") /\ RowsOf(resp.user) = {}) =>
        /\ resp.body.total = 0
        /\ DOMAIN resp.body.by_type = {}
        /\ \A d \in Difficulties : CountOf(resp.body.by_difficulty, d) = 0
        /\ DOMAIN resp.body.daily = {}
        /\ resp.body.streak = 0
        /\ [i \in DOMAIN resp.body.milestones |->
               resp.body.milestones[i].target]
               = <<1, 10, 25, 50, 100, 250, 500, 1000>>
        /\ \A i \in DOMAIN resp.body.milestones :
               ~resp.body.milestones[i].reached

\* C9 witness: the report of a user who deleted the only row, while another
\* user has a row.
C9_Witness ==
    /\ Answered("get_stats")
    /\ RowsOf(resp.user) = {}
    /\ DOMAIN words # {}
    /\ nextId > Cardinality(DOMAIN words) + 1

\* The length of the run of consecutive days of S that ends at day a
RunEndingAt(S, a) ==
    Max({k \in 0..Cardinality(S) : \A j \in 0..(k - 1) : (a - j) \in S})

\* C2: for the set S of creation days of a user, none later than today,
\* get_stats reports as streak the length of the run of consecutive days of S
\* that ends today if today is in S, else that ends yesterday if yesterday is
\* in S, else 0.
C2_Streak ==
    Answered("get_stats") =>
        LET S == DaysOf(resp.user)
            D == Day(now)
        IN  (\A d \in S : d <= D) =>
                resp.body.streak =
                    IF D \in S THEN RunEndingAt(S, D)
                    ELSE IF (D - 1) \in S THEN RunEndingAt(S, D - 1)
                    ELSE 0

\* C2 witness: entries yesterday and the day before, none today, and a day
\* further back after a gap: the streak reported is 2.
C2_Witness ==
    /\ Answered("get_stats")
    /\ Day(now) >= 4
    /\ DaysOf(resp.user) = {Day(now) - 1, Day(now) - 2, Day(now) - 4}
    /\ resp.body.streak = 2

ValidText(v) == v # Null /\ v # Str(<<>>)

ValidRow(r) ==
    /\ ValidText(r.english)
    /\ ValidText(r.german)
    /\ ValidText(r.example_sentence)
    /\ r.word_type = Null \/ \E wt \in WordTypes : r.word_type = Str(<<wt>>)
    /\ r.difficulty \in Difficulties

GatedRow(r) ==
    /\ r.word_type # Str(<<"noun">>) =>
           r.gender_article = Null /\ r.gender_label = Null /\ r.plural = Null
    /\ r.word_type # Str(<<"verb">>) => r.verb_forms = Null

\* C4: every stored row has gender_article, gender_label and plural null
\* unless its word_type is noun, and verb_forms null unless it is verb: a
\* field the reply gave against this is stored as null.
C4_FieldGating == \A id \in DOMAIN words : GatedRow(words[id])

\* C6: for a reply that holds a JSON object with the required members, bare
\* or in a fence, with or without the tag and prose around the fence,
\* whatever its string values hold, translate_word returns that object.
C6_ExactFields == parsed.done => parsed.result = AsObject(raw.ms)

\* The daily list of the claim: the days from today - 29 to today on which
\* the user has a row, each with the number of the user's rows of that day
ExpectedDaily(u) ==
    LET D == Day(now)
        days == SortAsc({d \in DaysOf(u) : D - (WindowDays - 1) <= d /\ d <= D})
    IN  [i \in DOMAIN days |->
            [day |-> isoformat(days[i]),
             count |-> Cardinality({id \in RowsOf(u) :
                                      Day(words[id].created_at) = days[i]})]]

\* C7: at any instant of today, the daily list of get_stats holds exactly the
\* days d with today - 29 <= d <= today on which the user has a row, each
\* with the count of all the user's rows of day d.
C7_DailyWindow ==
    Answered("get_stats") => resp.body.daily = ExpectedDaily(resp.user)

\* C10: every report of get_stats describes one state of the user's rows:
\* total is the sum of the by_type counts and of the by_difficulty counts,
\* each milestone is reached iff total >= target, and the days and the
\* streak come from rows that total counted, also when the user's other
\* requests commit while get_stats runs its queries.
C10_ConsistentReport ==
    Answered("get_stats") =>
        /\ resp.body.total = SumCounts(resp.body.by_type)
        /\ resp.body.total = SumDict(resp.body.by_difficulty)
        /\ SumCounts(resp.body.daily) <= resp.body.total
        /\ resp.body.streak <= resp.body.total
        /\ \A i \in DOMAIN resp.body.milestones :
               resp.body.milestones[i].reached
                   <=> resp.body.total >= resp.body.milestones[i].target

============================================================================
